---- MODULE Spec2Model ----
(***************************************************************************)
(* CFConv (continuous-filter convolution layer), pack/nn/cfconv.py.        *)
(*                                                                         *)
(* A tensor is a record [kind, shape, data]: shape is the sequence of its  *)
(* sizes and data its elements in row-major order (the order a contiguous  *)
(* torch tensor stores them).  Element values are integers; the values     *)
(* that follow the mean division of the aggregation are exact rationals    *)
(* <<numerator, denominator>> in lowest terms.  Indices into a tensor are  *)
(* 0-based as in the source; positions in data are 1-based.                *)
(* A failed torch operation yields ErrorT, and forward then raises.        *)
(***************************************************************************)
EXTENDS Integers, Sequences, FiniteSets, TLC

\* ------------------------------------------------------------------ bounds
NBatch == 2
NAtoms == 2
NNbh == 2
NIn == 1
NFilters == 2
NOut == 1
MaxDist == 2
MaxCalls == 2

\* ------------------------------------------------------------- arithmetic
Min(a, b) == IF a <= b THEN a ELSE b

Max(a, b) == IF a >= b THEN a ELSE b

Abs(a) == IF a < 0 THEN -a ELSE a

RECURSIVE GCD(_, _)
GCD(a, b) == IF b = 0 THEN a ELSE GCD(b, a % b)

RECURSIVE Prod(_)
Prod(s) == IF Len(s) = 0 THEN 1 ELSE Head(s) * Prod(Tail(s))

RECURSIVE SumSeq(_)
SumSeq(s) == IF Len(s) = 0 THEN 0 ELSE Head(s) + SumSeq(Tail(s))

\* exact rationals <<n, d>>, d > 0, in lowest terms
Rat(n, d) ==
    LET g == GCD(Abs(n), d)
    IN  <<n \div g, d \div g>>

RatOfInt(n) == <<n, 1>>

RatAdd(p, q) == Rat(p[1] * q[2] + q[1] * p[2], p[2] * q[2])

RatScale(p, k) == Rat(p[1] * k, p[2])

RECURSIVE RatSum(_)
RatSum(s) == IF Len(s) = 0 THEN RatOfInt(0) ELSE RatAdd(Head(s), RatSum(Tail(s)))

\* ---------------------------------------------------------------- tensors
\* (shape and data are held as evaluated sequences)
T(shape, data) == [kind |-> "tensor", shape |-> <<>> \o shape, data |-> <<>> \o data]

ErrorT == [kind |-> "error", shape |-> <<>>, data |-> <<>>]

NoneT == [kind |-> "none", shape |-> <<>>, data |-> <<>>]

IsTensor(t) == t.kind = "tensor"

Dim(t) == Len(t.shape)

Numel(t) == Len(t.data)

\* t[i1, ..., in] of a tensor whose rank is Len(idx)
RECURSIVE Offset(_, _, _)
Offset(idx, shape, k) ==
    IF k = 0 THEN 0 ELSE Offset(idx, shape, k - 1) * shape[k] + idx[k]

At(t, idx) == t.data[Offset(idx, t.shape, Len(idx)) + 1]

\* t[:, :c], Python slicing of the second axis with a stop c >= 0
SliceAtoms(t, c) ==
    IF ~IsTensor(t) \/ Dim(t) < 2 THEN ErrorT
    ELSE LET B == t.shape[1]
             A == t.shape[2]
             inner == Prod(SubSeq(t.shape, 3, Dim(t)))
             A2 == Min(c, A)
             row == A2 * inner
         IN  T([t.shape EXCEPT ![2] = A2],
               [j \in 1..(B * row) |->
                   t.data[((j - 1) \div row) * A * inner + ((j - 1) % row) + 1]])

\* t.unsqueeze(-1)
Unsqueeze(t) == IF ~IsTensor(t) THEN ErrorT ELSE T(Append(t.shape, 1), t.data)

\* torch broadcasting: shapes are aligned at their last axis, sizes must be
\* equal or 1
PadShape(s, n) ==
    [k \in 1..n |-> IF k <= n - Len(s) THEN 1 ELSE s[k - (n - Len(s))]]

BroadcastOK(s1, s2) ==
    \A k \in 1..Len(s1) : s1[k] = s2[k] \/ s1[k] = 1 \/ s2[k] = 1

BroadcastShape(s1, s2) ==
    [k \in 1..Len(s1) |-> IF s1[k] = 1 THEN s2[k] ELSE s1[k]]

\* position (0-based) in a tensor of shape in of element j (0-based, row
\* major) of its broadcast to shape out
RECURSIVE BOffset(_, _, _, _)
BOffset(j, out, in, k) ==
    IF k = 0 THEN 0
    ELSE BOffset(j \div out[k], out, in, k - 1) * in[k]
            + (IF in[k] = 1 THEN 0 ELSE j % out[k])

\* the pairs <<a[..], b[..]>> of the elements that a binary elementwise
\* operation of a and b combines
Paired(a, b) ==
    IF ~IsTensor(a) \/ ~IsTensor(b) THEN ErrorT
    ELSE LET n == Max(Dim(a), Dim(b))
             sa == PadShape(a.shape, n)
             sb == PadShape(b.shape, n)
         IN  IF ~BroadcastOK(sa, sb) THEN ErrorT
             ELSE LET so == BroadcastShape(sa, sb)
                  IN  T(so, [j \in 1..Prod(so) |->
                               <<a.data[BOffset(j - 1, so, sa, n) + 1],
                                 b.data[BOffset(j - 1, so, sb, n) + 1]>>])

Products(p) ==
    IF ~IsTensor(p) THEN ErrorT
    ELSE T(p.shape, [j \in 1..Numel(p) |-> p.data[j][1] * p.data[j][2]])

\* a * b
Mul(a, b) == Products(Paired(a, b))

\* (mutant) a + b
Sums(p) ==
    IF ~IsTensor(p) THEN ErrorT
    ELSE T(p.shape, [j \in 1..Numel(p) |-> p.data[j][1] + p.data[j][2]])

Add(a, b) == Sums(Paired(a, b))

\* t.view(*s), at most one size of s being -1
View(t, s) ==
    IF ~IsTensor(t) THEN ErrorT
    ELSE LET unknown == {k \in 1..Len(s) : s[k] = -1}
             known == Prod([k \in 1..Len(s) |-> IF s[k] = -1 THEN 1 ELSE s[k]])
         IN  IF unknown = {}
             THEN IF known = Numel(t) THEN T(s, t.data) ELSE ErrorT
             ELSE IF Cardinality(unknown) > 1 \/ known = 0 THEN ErrorT
             ELSE IF Numel(t) % known # 0 THEN ErrorT
             ELSE T([k \in 1..Len(s) |->
                       IF s[k] = -1 THEN Numel(t) \div known ELSE s[k]], t.data)

\* t.expand(*s), -1 keeping a size
Expand(t, s) ==
    IF ~IsTensor(t) \/ Len(s) # Dim(t) THEN ErrorT
    ELSE LET n == Len(s)
             ok == \A k \in 1..n : s[k] = -1 \/ s[k] = t.shape[k] \/ t.shape[k] = 1
             so == [k \in 1..n |-> IF s[k] = -1 THEN t.shape[k] ELSE s[k]]
         IN  IF ~ok THEN ErrorT
             ELSE T(so, [j \in 1..Prod(so) |->
                           t.data[BOffset(j - 1, so, t.shape, n) + 1]])

\* the multi-index of element j (0-based, row major) of a tensor of this shape
Unravel(j, shape) ==
    [k \in 1..Len(shape) |->
        (j \div Prod(SubSeq(shape, k + 1, Len(shape)))) % shape[k]]

\* torch.gather(input, dim, index), dim 0-based:
\* out[i1, .., in] = input[i1, .., index[i1, .., in], .., in]
TorchGather(input, dim, index) ==
    IF ~IsTensor(input) \/ ~IsTensor(index) THEN ErrorT
    ELSE IF Dim(input) # Dim(index) \/ dim >= Dim(input) THEN ErrorT
    ELSE IF \E k \in 1..Dim(index) :
               k # dim + 1 /\ index.shape[k] > input.shape[k] THEN ErrorT
    ELSE IF \E j \in 1..Numel(index) :
               index.data[j] < 0 \/ index.data[j] >= input.shape[dim + 1] THEN ErrorT
    ELSE T(index.shape,
           [j \in 1..Numel(index) |->
               At(input, [Unravel(j - 1, index.shape) EXCEPT ![dim + 1] = index.data[j]])])

\* torch.sum(t, axis, keepdim), axis 0-based
SumAxis(t, axis, keepdim) ==
    IF ~IsTensor(t) \/ axis >= Dim(t) THEN ErrorT
    ELSE LET n == t.shape[axis + 1]
             inner == Prod(SubSeq(t.shape, axis + 2, Dim(t)))
             outer == Prod(SubSeq(t.shape, 1, axis))
             so == IF keepdim THEN [t.shape EXCEPT ![axis + 1] = 1]
                   ELSE SubSeq(t.shape, 1, axis) \o SubSeq(t.shape, axis + 2, Dim(t))
         IN  T(so, [j \in 1..(outer * inner) |->
                      SumSeq([k \in 1..n |->
                          t.data[(((j - 1) \div inner) * n + (k - 1)) * inner
                                 + ((j - 1) % inner) + 1]])])

\* ------------------------------------------------- the layer's components
\* filter_network, an external module applied to the last axis of f_ij: one
\* vector of NFilters filter weights per pair.  "ones" is the constant filter,
\* "lin" a filter that depends on the pair's features and on the filter index.
FilterValue(name, feats, g) ==
    IF name = "ones" THEN 1 ELSE SumSeq(feats) + g + 1

FilterNetwork(name, f) ==
    IF ~IsTensor(f) \/ Dim(f) = 0 THEN ErrorT
    ELSE LET d == f.shape[Dim(f)]
             pairs == Prod(SubSeq(f.shape, 1, Dim(f) - 1))
         IN  T([f.shape EXCEPT ![Dim(f)] = NFilters],
               [j \in 1..(pairs * NFilters) |->
                   FilterValue(name,
                               [c \in 1..d |-> f.data[((j - 1) \div NFilters) * d + c]],
                               (j - 1) % NFilters)])

\* cutoff_network, an external module applied elementwise to r_ij: "one" is
\* the constant 1, "decay" falls linearly to 0 at MaxDist (in units of
\* 1/MaxDist, to stay in the integers)
CutoffValue(name, r) == IF name = "one" THEN 1 ELSE Max(0, MaxDist - r)

CutoffNetwork(name, r) ==
    IF ~IsTensor(r) THEN ErrorT
    ELSE T(r.shape, [j \in 1..Numel(r) |-> CutoffValue(name, r.data[j])])

\* Dense(n_in, n_filters, bias=False): a linear map of the last axis
Linear(t, w) ==
    IF ~IsTensor(t) \/ Dim(t) = 0 THEN ErrorT
    ELSE IF t.shape[Dim(t)] # w.shape[1] THEN ErrorT
    ELSE LET d == w.shape[1]
             m == w.shape[2]
             rows == Prod(SubSeq(t.shape, 1, Dim(t) - 1))
         IN  T([t.shape EXCEPT ![Dim(t)] = m],
               [j \in 1..(rows * m) |->
                   SumSeq([c \in 1..d |->
                       t.data[((j - 1) \div m) * d + c] * At(w, <<c - 1, (j - 1) % m>>)])])

\* Dense(n_filters, n_out, activation): linear map, bias, then the activation
Activate(name, q) == IF name = "relu" /\ q[1] < 0 THEN RatOfInt(0) ELSE q

Dense(t, layer) ==
    IF ~IsTensor(t) \/ Dim(t) = 0 THEN ErrorT
    ELSE IF t.shape[Dim(t)] # layer.weight.shape[1] THEN ErrorT
    ELSE LET d == layer.weight.shape[1]
             m == layer.weight.shape[2]
             rows == Prod(SubSeq(t.shape, 1, Dim(t) - 1))
         IN  T([t.shape EXCEPT ![Dim(t)] = m],
               [j \in 1..(rows * m) |->
                   Activate(layer.activation,
                       RatAdd(RatSum([c \in 1..d |->
                                  RatScale(t.data[((j - 1) \div m) * d + c],
                                           At(layer.weight, <<c - 1, (j - 1) % m>>))]),
                              RatOfInt(layer.bias.data[((j - 1) % m) + 1])))])

\* Aggregate(axis, mean): the masked sum over the axis, divided in mean mode
\* by the number of non-zero mask entries, floored at 1
NonZero(mask) ==
    IF ~IsTensor(mask) THEN ErrorT
    ELSE T(mask.shape, [j \in 1..Numel(mask) |-> IF mask.data[j] = 0 THEN 0 ELSE 1])

Quotients(p) ==
    IF ~IsTensor(p) THEN ErrorT
    ELSE T(p.shape, [j \in 1..Numel(p) |-> Rat(p.data[j][1], Max(p.data[j][2], 1))])

Exact(t) ==
    IF ~IsTensor(t) THEN ErrorT
    ELSE T(t.shape, [j \in 1..Numel(t) |-> RatOfInt(t.data[j])])

Aggregate(agg, input, mask) ==
    IF agg.mean
    THEN Quotients(Paired(SumAxis(Mul(input, Unsqueeze(mask)), agg.axis, FALSE),
                          SumAxis(NonZero(mask), agg.axis, TRUE)))
    ELSE Exact(SumAxis(Mul(input, Unsqueeze(mask)), agg.axis, FALSE))

\* ------------------------------------------------------- CFConv.forward
\* if cut is None: cut = x.shape[1]     (cut is <<>> for None, <<m>> for m)
DefaultCut(x, c) == IF c = <<>> THEN <<x.shape[2]>> ELSE c

\* if f_ij is None: f_ij = r_ij.unsqueeze(-1)
DefaultFij(r, f) == IF f.kind = "none" THEN Unsqueeze(r) ELSE f

\* (mutant) the cutoff added to the filter instead of scaling it
FilterStepAddCutoff(layer, f, r, c) ==
    IF layer.cutoff_network = "None"
    THEN FilterNetwork(layer.filter_network, SliceAtoms(f, c))
    ELSE Add(FilterNetwork(layer.filter_network, SliceAtoms(f, c)),
             Unsqueeze(CutoffNetwork(layer.cutoff_network, SliceAtoms(r, c))))

\* W = self.filter_network(f_ij[:, :cut]) and the optional cutoff
FilterStep(layer, f, r, c) ==
    IF layer.cutoff_network = "None"
    THEN FilterNetwork(layer.filter_network, SliceAtoms(f, c))
    ELSE Mul(FilterNetwork(layer.filter_network, SliceAtoms(f, c)),
             Unsqueeze(CutoffNetwork(layer.cutoff_network, SliceAtoms(r, c))))

\* y = self.in2f(x)
ProjectStep(layer, xs) == Linear(xs, layer.in2f)

\* (mutant) nbh_size = neighbors.size()
NbhSizeUncut(nb, c) == nb.shape

\* nbh_size = neighbors[:, :cut].size()
NbhSize(nb, c) == SliceAtoms(nb, c).shape

\* nbh = neighbors[:, :cut].view(-1, nbh_size[1] * nbh_size[2], 1)
\* nbh = nbh.expand(-1, -1, y.size(2))
NbhStep(nb, c, size, proj) ==
    IF Len(size) < 3 \/ ~IsTensor(proj) \/ Dim(proj) < 3 THEN ErrorT
    ELSE Expand(View(SliceAtoms(nb, c), <<-1, size[2] * size[3], 1>>),
                <<-1, -1, proj.shape[3]>>)

\* (mutant) the gather reads the features of the first cut atoms only
GatherStepTruncated(proj, idx, size) ==
    View(TorchGather(SliceAtoms(proj, size[2]), 1, idx),
         <<size[1], size[2], size[3], -1>>)

\* y = torch.gather(y, 1, nbh); y = y.view(nbh_size[0], nbh_size[1], nbh_size[2], -1)
GatherStep(proj, idx, size) ==
    View(TorchGather(proj, 1, idx), <<size[1], size[2], size[3], -1>>)

\* (mutant) the filter added to the gathered features
MultiplyStepAdd(gathered, w, c) == Add(SliceAtoms(gathered, c), SliceAtoms(w, c))

\* y = y[:, :cut] * W[:, :cut]
MultiplyStep(gathered, w, c) == Mul(SliceAtoms(gathered, c), SliceAtoms(w, c))

\* (mutant) y = self.agg(y, pairwise_mask): the mask is not truncated
AggregateStepUncutMask(layer, prod, mask, c) == Aggregate(layer.agg, prod, mask)

\* (mutant) the aggregation without the mask
Ones(t) == IF ~IsTensor(t) THEN ErrorT ELSE T(t.shape, [j \in 1..Numel(t) |-> 1])

AggregateStepNoMask(layer, prod, mask, c) ==
    Aggregate(layer.agg, prod, Ones(SliceAtoms(mask, c)))

\* (mutant) the mask multiplied in by hand and not handed to the aggregation:
\* the mean is taken over all neighbor slots
AggregateStepAllSlots(layer, prod, mask, c) ==
    Aggregate(layer.agg, Mul(prod, Unsqueeze(SliceAtoms(mask, c))),
              Ones(SliceAtoms(mask, c)))

\* y = self.agg(y, pairwise_mask[:, :cut])
AggregateStep(layer, prod, mask, c) == Aggregate(layer.agg, prod, SliceAtoms(mask, c))

\* y = self.f2out(y)
OutputStep(layer, aggregated) == Dense(aggregated, layer.f2out)

\* the aggregated value forward feeds to the output projection, ErrorT when
\* a step raises: the statements of forward one after the other, each
\* operator holding the names assigned so far
ForwardFromMultiply(layer, a, c, prod) ==
    IF ~IsTensor(prod) THEN ErrorT
    ELSE AggregateStep(layer, prod, a.pairwise_mask, c)

ForwardFromGather(layer, a, c, w, gathered) ==
    IF ~IsTensor(gathered) THEN ErrorT
    ELSE ForwardFromMultiply(layer, a, c, MultiplyStep(gathered, w, c))

ForwardFromNbh(layer, a, c, w, proj, size, idx) ==
    IF ~IsTensor(idx) THEN ErrorT
    ELSE ForwardFromGather(layer, a, c, w, GatherStep(proj, idx, size))

ForwardFromSize(layer, a, c, w, proj, size) ==
    ForwardFromNbh(layer, a, c, w, proj, size, NbhStep(a.neighbors, c, size, proj))

ForwardFromProject(layer, a, c, w, proj) ==
    IF ~IsTensor(proj) THEN ErrorT
    ELSE ForwardFromSize(layer, a, c, w, proj, NbhSize(a.neighbors, c))

ForwardFromFilter(layer, a, c, w) ==
    IF ~IsTensor(w) THEN ErrorT
    ELSE ForwardFromProject(layer, a, c, w, ProjectStep(layer, a.x))

ForwardFromDefaults(layer, a, c, f) ==
    ForwardFromFilter(layer, a, c, FilterStep(layer, f, a.r_ij, c))

ForwardAggregated(layer, a) ==
    ForwardFromDefaults(layer, a, DefaultCut(a.x, a.cut)[1], DefaultFij(a.r_ij, a.f_ij))

\* forward(x, r_ij, neighbors, pairwise_mask, f_ij, cut) as a function of the
\* layer and the arguments
Forward(layer, a) == OutputStep(layer, ForwardAggregated(layer, a))

\* ------------------------------------------------------------------ state
VARIABLES
    self,       \* the layer: in2f, f2out, filter_network, cutoff_network, agg
    args,       \* the caller's arguments: x, r_ij, neighbors, pairwise_mask, f_ij, cut
    cut,        \* forward's local names
    f_ij,
    W,
    y,
    nbh_size,
    nbh,
    ret,        \* the value forward returned
    pc,         \* the next statement of forward; "done" or "raised" after it
    calls,      \* forward calls started
    last        \* the value the previous call returned

vars == <<self, args, cut, f_ij, W, y, nbh_size, nbh, ret, pc, calls, last>>

locals == <<W, y, nbh_size, nbh>>

Goto(ok, label) == pc' = IF ok THEN label ELSE "raised"

\* (mutant) f_ij = r_ij.unsqueeze_(-1): the in-place unsqueeze reshapes the
\* caller's r_ij
DefaultsInPlace ==
    /\ pc = "defaults"
    /\ cut' = DefaultCut(args.x, cut)
    /\ f_ij' = DefaultFij(args.r_ij, f_ij)
    /\ args' = IF f_ij.kind = "none" THEN [args EXCEPT !.r_ij = Unsqueeze(args.r_ij)]
               ELSE args
    /\ pc' = "filter"
    /\ UNCHANGED <<self, W, y, nbh_size, nbh, ret, calls, last>>

\* lines 51-55
Defaults ==
    /\ pc = "defaults"
    /\ cut' = DefaultCut(args.x, cut)
    /\ f_ij' = DefaultFij(args.r_ij, f_ij)
    /\ pc' = "filter"
    /\ UNCHANGED <<self, args, W, y, nbh_size, nbh, ret, calls, last>>

\* lines 57-62
Filter ==
    /\ pc = "filter"
    /\ W' = FilterStep(self, f_ij, args.r_ij, cut[1])
    /\ Goto(IsTensor(W'), "project")
    /\ UNCHANGED <<self, args, cut, f_ij, y, nbh_size, nbh, ret, calls, last>>

\* line 65
Project ==
    /\ pc = "project"
    /\ y' = ProjectStep(self, args.x)
    /\ Goto(IsTensor(y'), "nbh")
    /\ UNCHANGED <<self, args, cut, f_ij, W, nbh_size, nbh, ret, calls, last>>

\* lines 67-69
Neighborhood ==
    /\ pc = "nbh"
    /\ nbh_size' = NbhSize(args.neighbors, cut[1])
    /\ nbh' = NbhStep(args.neighbors, cut[1], nbh_size', y)
    /\ Goto(IsTensor(nbh'), "gather")
    /\ UNCHANGED <<self, args, cut, f_ij, W, y, ret, calls, last>>

\* lines 71-72
Gather ==
    /\ pc = "gather"
    /\ y' = GatherStep(y, nbh, nbh_size)
    /\ Goto(IsTensor(y'), "multiply")
    /\ UNCHANGED <<self, args, cut, f_ij, W, nbh_size, nbh, ret, calls, last>>

\* line 74
Multiply ==
    /\ pc = "multiply"
    /\ y' = MultiplyStep(y, W, cut[1])
    /\ Goto(IsTensor(y'), "aggregate")
    /\ UNCHANGED <<self, args, cut, f_ij, W, nbh_size, nbh, ret, calls, last>>

\* line 75
Agg ==
    /\ pc = "aggregate"
    /\ y' = AggregateStep(self, y, args.pairwise_mask, cut[1])
    /\ Goto(IsTensor(y'), "output")
    /\ UNCHANGED <<self, args, cut, f_ij, W, nbh_size, nbh, ret, calls, last>>

\* lines 77-79
Output ==
    /\ pc = "output"
    /\ y' = OutputStep(self, y)
    /\ ret' = y'
    /\ Goto(IsTensor(y'), "done")
    /\ UNCHANGED <<self, args, cut, f_ij, W, nbh_size, nbh, calls, last>>

Next ==
    \/ Defaults
    \/ Filter
    \/ Project
    \/ Neighborhood
    \/ Gather
    \/ Multiply
    \/ Agg
    \/ Output

\* ---------------------------------------------------- layers and arguments
Tensors(shape, values) == {T(shape, d) : d \in [1..Prod(shape) -> values]}

\* the weights of in2f (n_in x n_filters) and of f2out (n_filters x n_out,
\* and its bias): distinct values, of both signs in f2out
In2fWeight == T(<<NIn, NFilters>>, [j \in 1..(NIn * NFilters) |-> j])

F2outWeight ==
    T(<<NFilters, NOut>>, [j \in 1..(NFilters * NOut) |-> IF j % 2 = 1 THEN j ELSE -j])

F2outBias == T(<<NOut>>, [j \in 1..NOut |-> -j])

\* CFConv(n_in, n_filters, n_out, filter_network, cutoff_network, activation,
\*        normalize_filter, axis=2)
CFConv(filter_network, cutoff_network, activation, normalize_filter) ==
    [in2f |-> In2fWeight,
     f2out |-> [weight |-> F2outWeight, bias |-> F2outBias, activation |-> activation],
     filter_network |-> filter_network,
     cutoff_network |-> cutoff_network,
     agg |-> [axis |-> 2, mean |-> normalize_filter]]

\* the constant filter with no activation (the layer's defaults), and a
\* distance-dependent filter with an activation
Layers ==
    {CFConv(f[1], c, f[2], m) : f \in {<<"ones", "none">>, <<"lin", "relu">>},
                                c \in {"None", "one", "decay"}, m \in BOOLEAN}

\* atom features, distinct from atom to atom
Features(shape) == T(shape, [j \in 1..Prod(shape) |-> IF j % 2 = 1 THEN j ELSE -j])

\* distances in 0..MaxDist
Distances(shape) == T(shape, [j \in 1..Prod(shape) |-> j % (MaxDist + 1)])

\* a distance expansion with two features per pair
Expansion(r) ==
    T(Append(r.shape, 2),
      [j \in 1..(2 * Numel(r)) |->
          IF j % 2 = 1 THEN r.data[(j + 1) \div 2] ELSE MaxDist - r.data[j \div 2]])

Cuts == {<<>>} \cup {<<m>> : m \in 0..(NAtoms + 1)}

Call(layer, a) ==
    /\ self = layer
    /\ args = a
    /\ cut = a.cut
    /\ f_ij = a.f_ij
    /\ W = NoneT
    /\ y = NoneT
    /\ nbh_size = <<>>
    /\ nbh = NoneT
    /\ ret = NoneT
    /\ pc = "defaults"
    /\ calls = 1
    /\ last = NoneT

\* a batch of molecules built from the tensors of one molecule: in molecule b
\* the neighbor indices are rotated by b, and the mask entries are flipped when
\* b is odd
NeighborBatch(t) ==
    T(<<NBatch>> \o t.shape,
      [j \in 1..(NBatch * Numel(t)) |->
          (t.data[((j - 1) % Numel(t)) + 1] + ((j - 1) \div Numel(t))) % NAtoms])

MaskBatch(t) ==
    T(<<NBatch>> \o t.shape,
      [j \in 1..(NBatch * Numel(t)) |->
          IF ((j - 1) \div Numel(t)) % 2 = 1 THEN 1 - t.data[((j - 1) % Numel(t)) + 1]
          ELSE t.data[((j - 1) % Numel(t)) + 1]])

NeighborTensors == {NeighborBatch(t) : t \in Tensors(<<NAtoms, NNbh>>, 0..(NAtoms - 1))}

MaskTensors == {MaskBatch(t) : t \in Tensors(<<NAtoms, NNbh>>, {0, 1})}

\* a layer and valid arguments: x (batch, n_atoms, n_in); r_ij, neighbors and
\* pairwise_mask (batch, n_atoms, n_neighbors); neighbor indices in
\* [0, n_atoms); a 0/1 mask
Init ==
    \E layer \in Layers, c \in Cuts, r \in {Distances(<<NBatch, NAtoms, NNbh>>)} :
      \E nb \in NeighborTensors, pm \in MaskTensors, f \in {NoneT, Expansion(r)} :
        Call(layer, [x |-> Features(<<NBatch, NAtoms, NIn>>), r_ij |-> r,
                     neighbors |-> nb, pairwise_mask |-> pm, f_ij |-> f, cut |-> c])

Spec == Init /\ [][Next]_vars

\* the caller calls forward again with the same arguments: a new frame, the
\* value of the previous call kept for comparison
Again ==
    /\ pc \in {"done", "raised"}
    /\ calls < MaxCalls
    /\ calls' = calls + 1
    /\ last' = IF pc = "done" THEN ret ELSE ErrorT
    /\ cut' = args.cut
    /\ f_ij' = args.f_ij
    /\ W' = NoneT
    /\ y' = NoneT
    /\ nbh_size' = <<>>
    /\ nbh' = NoneT
    /\ ret' = NoneT
    /\ pc' = "defaults"
    /\ UNCHANGED <<self, args>>

NextTwice == Next \/ Again

SpecTwice == Init /\ [][NextTwice]_vars

\* arguments whose distance, neighbor and mask tensors take their shapes
\* independently of each other and of x
Shapes ==
    {<<b, a, n>> : b \in {1, NBatch}, a \in {NAtoms, NAtoms + 1},
                   n \in {1, NNbh, NNbh + 1}}

Indices(shape) == T(shape, [j \in 1..Prod(shape) |-> j % NAtoms])

Mask(shape) == T(shape, [j \in 1..Prod(shape) |-> (j \div 2) % 2])

InitMismatch ==
    \E layer \in {l \in Layers : l.filter_network = "lin" /\ l.cutoff_network # "one"},
       c \in {<<>>, <<1>>}, sr \in Shapes, sn \in Shapes, sm \in Shapes :
        Call(layer, [x |-> Features(<<NBatch, NAtoms, NIn>>), r_ij |-> Distances(sr),
                     neighbors |-> Indices(sn), pairwise_mask |-> Mask(sm),
                     f_ij |-> NoneT, cut |-> c])

SpecMismatch == InitMismatch /\ [][Next]_vars

\* ------------------------------------------------------------------ claims
Returned == pc = "done"

Raised == pc = "raised"

n_atoms == args.x.shape[2]

n_out == self.f2out.weight.shape[2]

\* cut is not given, or names a non-empty prefix of the atoms
ValidCut == args.cut = <<>> \/ args.cut[1] \in 1..n_atoms

\* C1: for all valid inputs forward returns an output of shape
\* (batch, cut, n_out), cut being n_atoms when it is not given.
C1_OutputShape ==
    ((Returned \/ Raised) /\ ValidCut) =>
        /\ Returned
        /\ IsTensor(ret)
        /\ ret.shape = <<args.x.shape[1], DefaultCut(args.x, args.cut)[1], n_out>>

C1_Witness ==
    /\ Returned
    /\ args.cut # <<>>
    /\ args.cut[1] < n_atoms
    /\ ret.shape[2] = args.cut[1]

\* the index sets of the call: molecules, the atoms forward computes, the
\* neighbor slots and the filter components
Molecules == 0..(args.x.shape[1] - 1)

Atoms == 0..(Min(DefaultCut(args.x, args.cut)[1], n_atoms) - 1)

Slots == 0..(args.neighbors.shape[3] - 1)

Filters == 0..(self.in2f.shape[2] - 1)

Outcome == IF Returned THEN ret ELSE ErrorT

\* in2f(x)[b, j, g], written out
Projected(b, j, g) ==
    SumSeq([c \in 1..args.x.shape[3] |->
               At(args.x, <<b, j, c - 1>>) * At(self.in2f, <<c - 1, g>>)])

\* C2: for 0 < m <= n_atoms, forward with cut = m returns the first m rows of
\* what forward returns with cut = n_atoms, also when the first m rows name
\* neighbors of index >= m.
C2_TruncationConsistency ==
    ((Returned \/ Raised) /\ args.cut # <<>> /\ args.cut[1] \in 1..n_atoms) =>
        /\ Returned
        /\ ret = SliceAtoms(Forward(self, [args EXCEPT !.cut = <<n_atoms>>]),
                            args.cut[1])

C2_Witness ==
    /\ Returned
    /\ args.cut # <<>>
    /\ args.cut[1] \in 1..(n_atoms - 1)
    /\ \E b \in Molecules, i \in Atoms, k \in Slots :
          /\ At(args.neighbors, <<b, i, k>>) >= args.cut[1]
          /\ At(args.pairwise_mask, <<b, i, k>>) = 1
    /\ ret # Forward(self, [args EXCEPT !.cut = <<n_atoms>>])

\* C3: after the aggregation, an atom whose mask row is all zero has the zero
\* vector, in sum mode and in mean mode.
MaskRowZero(b, i) == \A k \in Slots : At(args.pairwise_mask, <<b, i, k>>) = 0

C3_MaskingLaw ==
    pc = "output" =>
        \A b \in Molecules, i \in Atoms :
            MaskRowZero(b, i) => \A g \in Filters : At(y, <<b, i, g>>) = RatOfInt(0)

C3_Witness ==
    /\ pc = "output"
    /\ self.agg.mean
    /\ \E b \in Molecules, i \in Atoms :
          /\ MaskRowZero(b, i)
          /\ \E k \in Slots, g \in Filters :
                Projected(b, At(args.neighbors, <<b, i, k>>), g) # 0

\* C4: in mean mode an atom with k neighbors of mask 1 has S / k, S being its
\* sum-mode value, when k >= 1, and zero when k = 0.
ValidNeighbors(b, i) ==
    Cardinality({k \in Slots : At(args.pairwise_mask, <<b, i, k>>) = 1})

SumMode == ForwardAggregated([self EXCEPT !.agg.mean = FALSE], args)

C4_MeanMode ==
    (pc = "output" /\ self.agg.mean) =>
        \E S \in {SumMode} :
            \A b \in Molecules, i \in Atoms, g \in Filters :
                /\ At(y, <<b, i, g>>)[2] > 0
                /\ At(y, <<b, i, g>>) =
                     IF ValidNeighbors(b, i) >= 1
                     THEN Rat(At(S, <<b, i, g>>)[1], ValidNeighbors(b, i))
                     ELSE RatOfInt(0)

C4_Witness ==
    /\ pc = "output"
    /\ self.agg.mean
    /\ \E b \in Molecules, i \in Atoms : ValidNeighbors(b, i) = 0
    /\ \E S \in {SumMode} :
          \E b \in Molecules, i \in Atoms, g \in Filters :
              /\ ValidNeighbors(b, i) > 1
              /\ At(y, <<b, i, g>>) # At(S, <<b, i, g>>)

\* C5: a layer whose cutoff_network returns 1 for every pair returns what the
\* layer without cutoff_network returns; and after the filter step the cutoff
\* of pair (b, i, k), computed from r_ij[b, i, k], scales every component of
\* the filter of that pair.
PairFeatures(b, i, k) ==
    [c \in 1..f_ij.shape[4] |-> At(f_ij, <<b, i, k, c - 1>>)]

C5_CutoffLaw ==
    /\ ((Returned \/ Raised) /\ self.cutoff_network = "one") =>
          Outcome = Forward([self EXCEPT !.cutoff_network = "None"], args)
    /\ (pc = "project" /\ self.cutoff_network # "None") =>
          /\ W.shape = <<args.x.shape[1], Cardinality(Atoms), args.neighbors.shape[3],
                         self.in2f.shape[2]>>
          /\ \A b \in Molecules, i \in Atoms, k \in Slots, g \in Filters :
                At(W, <<b, i, k, g>>) =
                    FilterValue(self.filter_network, PairFeatures(b, i, k), g)
                        * CutoffValue(self.cutoff_network, At(args.r_ij, <<b, i, k>>))

C5_Witness ==
    /\ Returned
    /\ self.cutoff_network = "one"
    /\ ret # Forward([self EXCEPT !.cutoff_network = "decay"], args)

\* C8: after the gather, y has shape (batch, cut, n_neighbors, n_filters) and
\* y[b, i, k, :] is the projected feature vector of atom neighbors[b, i, k],
\* the projection being that of all n_atoms atoms.
C8_NeighborGather ==
    (pc = "multiply" /\ ValidCut) =>
        /\ y.shape = <<args.x.shape[1], cut[1], args.neighbors.shape[3],
                       self.in2f.shape[2]>>
        /\ \A b \in Molecules, i \in Atoms, k \in Slots, g \in Filters :
              At(y, <<b, i, k, g>>) = Projected(b, At(args.neighbors, <<b, i, k>>), g)

C8_Witness ==
    /\ pc = "multiply"
    /\ cut[1] < n_atoms
    /\ \E b \in Molecules, i \in Atoms, k \in Slots :
          /\ At(args.neighbors, <<b, i, k>>) >= cut[1]
          /\ b > 0
          /\ At(y, <<b, i, k, 0>>) # At(y, <<0, i, k, 0>>)

\* C9: in sum mode with no cutoff the value fed to the output projection for
\* atom (b, i) is the sum over the slots k of
\* pairwise_mask[b, i, k] * W[b, i, k, :] * in2f(x)[b, neighbors[b, i, k], :],
\* W the filter of f_ij (r_ij with a trailing axis when f_ij is not given);
\* with the constant filter 1 and an all-ones mask row it is the sum of the
\* projected features of the atom's neighbors.
GivenFeatures(b, i, k) ==
    IF args.f_ij.kind = "none" THEN <<At(args.r_ij, <<b, i, k>>)>>
    ELSE [c \in 1..args.f_ij.shape[4] |-> At(args.f_ij, <<b, i, k, c - 1>>)]

C9_Composition ==
    (pc = "output" /\ ~self.agg.mean /\ self.cutoff_network = "None") =>
        \A b \in Molecules, i \in Atoms, g \in Filters :
            /\ At(y, <<b, i, g>>) =
                 RatOfInt(SumSeq([k \in 1..args.neighbors.shape[3] |->
                     At(args.pairwise_mask, <<b, i, k - 1>>)
                       * FilterValue(self.filter_network, GivenFeatures(b, i, k - 1), g)
                       * Projected(b, At(args.neighbors, <<b, i, k - 1>>), g)]))
            /\ (self.filter_network = "ones" /\ ValidNeighbors(b, i) = Cardinality(Slots)) =>
                 At(y, <<b, i, g>>) =
                     RatOfInt(SumSeq([k \in 1..args.neighbors.shape[3] |->
                         Projected(b, At(args.neighbors, <<b, i, k - 1>>), g)]))

C9_Witness ==
    /\ pc = "output"
    /\ ~self.agg.mean
    /\ self.cutoff_network = "None"
    /\ self.filter_network = "lin"
    /\ args.f_ij.kind = "none"
    /\ \E b \in Molecules, i \in Atoms :
          /\ ValidNeighbors(b, i) = 1
          /\ At(y, <<b, i, 0>>) # RatOfInt(0)

\* C10: two calls that differ only in the neighbor indices stored where
\* pairwise_mask is 0 have the same outcome: the outcome of every call is that
\* of the call with each such index replaced by 0.
Padded(v) ==
    [args EXCEPT !.neighbors =
        T(args.neighbors.shape,
          [j \in 1..Numel(args.neighbors) |->
              IF args.pairwise_mask.data[j] = 0 THEN v ELSE args.neighbors.data[j]])]

C10_PaddingIndependence ==
    (Returned \/ Raised) => Outcome = Forward(self, Padded(0))

C10_Witness ==
    /\ Returned
    /\ self.agg.mean
    /\ self.cutoff_network = "decay"
    /\ \E b \in Molecules, i \in Atoms, k \in Slots, g \in Filters :
          /\ At(args.pairwise_mask, <<b, i, k>>) = 0
          /\ Projected(b, At(args.neighbors, <<b, i, k>>), g) # Projected(b, 0, g)

\* C6: forward is a function of its arguments and the layer: a second call
\* with the same arguments and the same layer has the outcome of the first,
\* and no statement of forward changes the layer or the caller's arguments.
C6_Purity ==
    [][/\ args' = args
       /\ self' = self
       /\ (calls' >= 2 /\ pc' \in {"done", "raised"}) =>
             (IF pc' = "done" THEN ret' ELSE ErrorT) = last']_vars

C6_Witness ==
    /\ calls >= 2
    /\ Returned
    /\ IsTensor(last)
    /\ args.f_ij.kind = "none"
    /\ f_ij.kind = "tensor"

\* C7: when r_ij, neighbors and pairwise_mask do not share their three
\* dimensions, forward raises and returns no output.
SameLeadingDims ==
    /\ args.r_ij.shape = args.neighbors.shape
    /\ args.neighbors.shape = args.pairwise_mask.shape

C7_ShapeMismatchFails ==
    ((Returned \/ Raised) /\ ~SameLeadingDims) => Raised

====
